---- MODULE Spec2Model ----
\* Verification model of two browser front-ends:
\*   storytelling/model.js + storytelling/controller.js  (voice storyteller)
\*   aicook/script.js                                     (recipe generator)
\*
\* JavaScript strings are modelled as sequences of tokens; a token is a
\* fragment of text (a character or a fixed literal of the source) and string
\* concatenation is \o.  The empty string is <<>>.  An optional value
\* (undefined / null / absent JSON field) is a sequence of length 0 or 1.
EXTENDS Integers, Sequences, FiniteSets, TLC

\* ------------------------------------------------------------------ bounds
MaxOutstanding == 2
MaxTimers == 1
MaxStoryLen == 6

\* ------------------------------------------------------------ input sets
UserTexts == { <<"a">>, <<"b">> }
InitialContents == { <<"Once">> }
ApiTexts == { <<"s">>, <<"t">>, <<>> }
Roles == { "Player", "Narrator" }
\* <option value=code data-name=name> pairs of the language selector
LanguageOptions == { [lang |-> "en-US", name |-> "English"],
                     [lang |-> "fr-FR", name |-> "French"] }

\* ----------------------------------------------------- HTTP responses
\* net: fetch() fulfilled; ok: response.ok; json: the body parses as JSON;
\* error: the optional "error" member, itself with an optional "message";
\* candidates: the "candidates" array (absent and empty both <<>>), each
\* candidate a sequence of parts, each part with an optional text.
Part(optText) == [text |-> optText]
Candidate(parts) == [parts |-> parts]
NetFail ==
  [net |-> FALSE, ok |-> FALSE, json |-> FALSE, error |-> <<>>, candidates |-> <<>>]
Http(ok, json, error, candidates) ==
  [net |-> TRUE, ok |-> ok, json |-> json, error |-> error, candidates |-> candidates]
ErrorMember(optMessage) == << [message |-> optMessage] >>
TextBody(t) == << Candidate(<< Part(<<t>>) >>) >>
NoTextBody == << Candidate(<< Part(<<>>) >>) >>

Responses ==
  { NetFail,
    Http(TRUE, TRUE, <<>>, TextBody(<<"x">>)),
    Http(TRUE, TRUE, <<>>, TextBody(<<>>)),
    Http(TRUE, TRUE, <<>>, NoTextBody),
    Http(TRUE, TRUE, <<>>, <<>>),
    Http(TRUE, FALSE, <<>>, <<>>),
    Http(FALSE, TRUE, ErrorMember(<< <<"quota exceeded">> >>), <<>>),
    Http(FALSE, TRUE, ErrorMember(<<>>), <<>>),
    Http(FALSE, TRUE, <<>>, <<>>),
    Http(FALSE, FALSE, <<>>, <<>>) }

NoResponse == NetFail

\* Outcome of an async function: a returned value (optional string, <<>> is
\* undefined) or a thrown error with a name and a message.
Return(optValue) ==
  [kind |-> "return", value |-> optValue, name |-> "", message |-> <<>>]
Throw(name, message) ==
  [kind |-> "throw", value |-> <<>>, name |-> name, message |-> message]
NoResult == [kind |-> "none", value |-> <<>>, name |-> "", message |-> <<>>]

\* ================================================================
\* Storyteller
\* ================================================================
VARIABLES
  story,                \* model.js: let story
  initialStory,         \* model.js: let initialStory
  currentLanguage,      \* model.js: let currentLanguage
  currentLanguageName,  \* model.js: let currentLanguageName
  recognitionLang,      \* controller.js: recognition.lang
  aiRequestInProgress,  \* controller.js: let aiRequestInProgress
  loading,              \* view: loading indicator visible
  displayed,            \* view: story text shown
  speaking,             \* view: utterance being spoken, optional
  timers,               \* pending setTimeout callbacks, in firing order
  requests,             \* handleVoiceInput invocations suspended at their
                        \* await, oldest first
  unhandledRejection,   \* a promise of handleVoiceInput has been rejected
  ret,                  \* value returned by the last function called directly
  captured,             \* argument of the most recent initializeStory call,
                        \* or the arguments drawn for a script.js function
  call                  \* last function called directly, and whether
                        \* appendLine has been called since initializeStory

svars == << story, initialStory, currentLanguage, currentLanguageName,
            recognitionLang, aiRequestInProgress, loading, displayed,
            speaking, timers, requests, unhandledRejection, ret,
            captured, call >>

\* ================================================================
\* Recipe app state (aicook/script.js)
\* ================================================================
VARIABLES
  storage,              \* localStorage entry 'geminiApiKey', optional
  apikey,               \* this.apikey, written by the constructor
  apiKey,               \* this.apiKey, optional (undefined until assigned)
  apiKeyInput,          \* this.apiKeyInput.value
  saveApiKeyBtn,        \* this.saveApiKeyBtn text and background
  loadingShown,         \* this.loading has class 'show'
  generateBtnDisable,   \* this.generateBtn.disable, optional
  generateBtnDisabled,  \* this.generateBtn.disabled, the DOM attribute
  generateBtnText,      \* this.generateBtn.textContent
  recipeShown,          \* this.recipeSection has class 'show'
  recipeContent,        \* this.recipeContent.innerHTML
  alert,                \* the alert() call of the latest listener run, with the
                        \* method that raised it, optional
  recipeRequests        \* generateRecipe invocations suspended at their
                        \* await, oldest first

cvars == << storage, apikey, apiKey, apiKeyInput, saveApiKeyBtn, loadingShown,
            generateBtnDisable, generateBtnDisabled, generateBtnText,
            recipeShown, recipeContent, alert, recipeRequests >>

vars == << svars, cvars >>

WelcomeMessage ==
  <<"Help me build a story! Start with a sentence and I will continue it.">>
ResetMessage ==
  <<"Story reset! Help me build a story! Start with a sentence and I will continue it.">>
Placeholder == <<"(no response)">>

Called(name, appended) == [name |-> name, appended |-> appended]

\* ------------------------------------------------------------- model.js
\* appendLine putting the new line in front of the story
appendLine_Prepend(s, role, text) == <<"\n", role, ": ">> \o text \o s

appendLine(s, role, text) == s \o <<"\n", role, ": ">> \o text

resetStory(initial) == initial

\* initializeStory without the line that stores the snapshot for reset
initializeStory_NoSnapshot(initialText) ==
  [story |-> initialText, initialStory |-> <<>>]

initializeStory(initialText) ==
  [story |-> initialText, initialStory |-> initialText]

setLanguage(lang, name) ==
  [currentLanguage |-> lang, currentLanguageName |-> name]

StoryPrompt(languageName, prompt) ==
  <<"Continue the story in ", languageName, ":\n">> \o prompt

\* data.candidates?.[0]?.content?.parts?.[0]?.text || "(no response)"
StoryText(candidates) ==
  IF candidates = <<>> THEN Placeholder
  ELSE IF candidates[1].parts = <<>> THEN Placeholder
  ELSE IF candidates[1].parts[1].text = <<>> THEN Placeholder
  ELSE IF candidates[1].parts[1].text[1] = <<>> THEN Placeholder
  ELSE candidates[1].parts[1].text[1]

generateStory(response) ==
  IF ~response.net THEN Throw("TypeError", <<"Failed to fetch">>)
  ELSE IF ~response.json THEN Throw("SyntaxError", <<"Unexpected token">>)
  ELSE Return(<< StoryText(response.candidates) >>)

\* ---------------------------------------------------------------- view
toggleLoading(show) == show

updateStory(text) == text

speakText(text, lang) == [text |-> text, lang |-> lang]

stopSpeaking == <<>>

\* -------------------------------------------------------- controller.js
StoryInit ==
  /\ \E content \in InitialContents :
       /\ story = initializeStory(content).story
       /\ initialStory = initializeStory(content).initialStory
       /\ displayed = updateStory(initializeStory(content).story)
       /\ captured = << content >>
  /\ currentLanguage = "en-US"
  /\ currentLanguageName = "English"
  /\ recognitionLang = "en-US"
  /\ aiRequestInProgress = FALSE
  /\ loading = FALSE
  /\ speaking = <<>>
  /\ timers = << WelcomeMessage >>
  /\ requests = <<>>
  /\ unhandledRejection = FALSE
  /\ ret = <<>>
  /\ call = Called("", FALSE)

\* of the prompt sent, the request in flight keeps the language name: the
\* story text in it is not read again.  stopped: a stop action has been
\* handled since the request was made
Request(prompt) == [languageName |-> prompt[2], stopped |-> FALSE]

Outstanding == DOMAIN requests

\* the sequence without its i-th element
Remove(seq, i) == SubSeq(seq, 1, i - 1) \o SubSeq(seq, i + 1, Len(seq))

\* handleVoiceInput up to its await
handleVoiceInput(userText) ==
  /\ Len(requests) < MaxOutstanding
  /\ Len(story) < MaxStoryLen
  /\ LET updatedStory == appendLine(story, "Player", userText) IN
       /\ story' = updatedStory
       /\ displayed' = updateStory(updatedStory)
       /\ loading' = toggleLoading(TRUE)
       /\ aiRequestInProgress' = TRUE
       /\ requests' = Append(requests,
            Request(StoryPrompt(currentLanguageName,
                                updatedStory \o <<"\nNarrator:">>)))
  /\ UNCHANGED << initialStory, currentLanguage, currentLanguageName,
                  recognitionLang, speaking, timers, unhandledRejection, ret, captured,
                  call, cvars >>

\* the continuation speaking the response without appending it
completionResolves_SpeakOnly(i, response) ==
  /\ i \in Outstanding
  /\ requests' = Remove(requests, i)
  /\ generateStory(response).kind = "return"
  /\ LET aiResponse == generateStory(response).value[1] IN
       /\ aiRequestInProgress' = FALSE
       /\ loading' = toggleLoading(FALSE)
       /\ displayed' = updateStory(story)
       /\ speaking' = << speakText(aiResponse, currentLanguage) >>
  /\ UNCHANGED << story, initialStory, currentLanguage, currentLanguageName,
                  recognitionLang, timers, unhandledRejection, ret, captured, call, cvars >>

\* handleVoiceInput after its await, generateStory having returned
completionResolves(i, response) ==
  /\ i \in Outstanding
  /\ requests' = Remove(requests, i)
  /\ generateStory(response).kind = "return"
  /\ LET aiResponse == generateStory(response).value[1]
         finalStory == appendLine(story, "Narrator", aiResponse) IN
       /\ aiRequestInProgress' = FALSE
       /\ loading' = toggleLoading(FALSE)
       /\ story' = finalStory
       /\ displayed' = updateStory(finalStory)
       /\ speaking' = << speakText(aiResponse, currentLanguage) >>
  /\ UNCHANGED << initialStory, currentLanguage, currentLanguageName,
                  recognitionLang, timers, unhandledRejection, ret, captured, call, cvars >>

\* handleVoiceInput with a catch that clears the loading state on rejection
completionRejects_Recover(i, response) ==
  /\ i \in Outstanding
  /\ requests' = Remove(requests, i)
  /\ generateStory(response).kind = "throw"
  /\ aiRequestInProgress' = FALSE
  /\ loading' = toggleLoading(FALSE)
  /\ unhandledRejection' = TRUE
  /\ UNCHANGED << story, initialStory, currentLanguage, currentLanguageName,
                  recognitionLang, displayed, speaking, timers, ret, captured,
                  call, cvars >>

\* generateStory rejects: handleVoiceInput's promise rejects, nothing runs
completionRejects(i, response) ==
  /\ i \in Outstanding
  /\ requests' = Remove(requests, i)
  /\ generateStory(response).kind = "throw"
  /\ unhandledRejection' = TRUE
  /\ UNCHANGED << story, initialStory, currentLanguage, currentLanguageName,
                  recognitionLang, aiRequestInProgress, loading, displayed,
                  speaking, timers, ret, captured, call, cvars >>

handleLanguageChange(selectedOption) ==
  /\ currentLanguage' = setLanguage(selectedOption.lang, selectedOption.name).currentLanguage
  /\ currentLanguageName' = setLanguage(selectedOption.lang, selectedOption.name).currentLanguageName
  /\ recognitionLang' = selectedOption.lang
  /\ UNCHANGED << story, initialStory, aiRequestInProgress, loading,
                  displayed, speaking, timers, requests, unhandledRejection, ret, captured,
                  call, cvars >>

\* handleStopSpeaking hiding the indicator without clearing the flag
handleStopSpeaking_HideOnly ==
  /\ Len(timers) < MaxTimers
  /\ speaking' = stopSpeaking
  /\ loading' = IF aiRequestInProgress THEN toggleLoading(FALSE) ELSE loading
  /\ story' = resetStory(initialStory)
  /\ displayed' = updateStory(resetStory(initialStory))
  /\ timers' = Append(timers, ResetMessage)
  /\ requests' = [i \in DOMAIN requests |->
                    [requests[i] EXCEPT !.stopped = TRUE]]
  /\ UNCHANGED << aiRequestInProgress, initialStory, currentLanguage,
                  currentLanguageName, recognitionLang, unhandledRejection,
                  ret, captured, call, cvars >>

handleStopSpeaking ==
  /\ Len(timers) < MaxTimers
  /\ speaking' = stopSpeaking
  /\ loading' = IF aiRequestInProgress THEN toggleLoading(FALSE) ELSE loading
  /\ aiRequestInProgress' = IF aiRequestInProgress THEN FALSE ELSE aiRequestInProgress
  /\ story' = resetStory(initialStory)
  /\ displayed' = updateStory(resetStory(initialStory))
  /\ timers' = Append(timers, ResetMessage)
  /\ requests' = [i \in DOMAIN requests |->
                    [requests[i] EXCEPT !.stopped = TRUE]]
  /\ UNCHANGED << initialStory, currentLanguage, currentLanguageName,
                  recognitionLang, unhandledRejection, ret, captured, call, cvars >>

recognitionOnError ==
  /\ loading' = toggleLoading(FALSE)
  /\ aiRequestInProgress' = FALSE
  /\ UNCHANGED << story, initialStory, currentLanguage, currentLanguageName,
                  recognitionLang, displayed, speaking, timers,
                  requests, unhandledRejection, ret, captured, call, cvars >>

\* a setTimeout callback of init or handleStopSpeaking runs
announcementFires ==
  /\ timers # <<>>
  /\ speaking' = << speakText(Head(timers), currentLanguage) >>
  /\ timers' = Tail(timers)
  /\ UNCHANGED << story, initialStory, currentLanguage, currentLanguageName,
                  recognitionLang, aiRequestInProgress, loading, displayed,
                  requests, unhandledRejection, ret, captured, call, cvars >>

\* ------------------------------------------- model.js called directly
\* The module as loaded, before the controller has initialised it.
ModelApiInit ==
  /\ story = <<>>
  /\ initialStory = <<>>
  /\ currentLanguage = "en-US"
  /\ currentLanguageName = "English"
  /\ recognitionLang = "en-US"
  /\ aiRequestInProgress = FALSE
  /\ loading = FALSE
  /\ displayed = <<>>
  /\ speaking = <<>>
  /\ timers = <<>>
  /\ requests = <<>>
  /\ unhandledRejection = FALSE
  /\ ret = <<>>
  /\ captured = <<>>
  /\ call = Called("load", FALSE)

apiFrame ==
  UNCHANGED << recognitionLang, aiRequestInProgress, loading, displayed,
               speaking, timers, requests, unhandledRejection, cvars >>

apiInitializeStory(initialText) ==
  /\ story' = initializeStory(initialText).story
  /\ initialStory' = initializeStory(initialText).initialStory
  /\ ret' = << initializeStory(initialText).story >>
  /\ captured' = << initialText >>
  /\ call' = Called("initializeStory", FALSE)
  /\ UNCHANGED << currentLanguage, currentLanguageName >>
  /\ apiFrame

apiAppendLine(role, text) ==
  /\ Len(story) < MaxStoryLen
  /\ story' = appendLine(story, role, text)
  /\ ret' = << appendLine(story, role, text) >>
  /\ call' = Called("appendLine", TRUE)
  /\ UNCHANGED << initialStory, currentLanguage, currentLanguageName, captured >>
  /\ apiFrame

apiGetStory ==
  /\ ret' = << story >>
  /\ call' = Called("getStory", call.appended)
  /\ UNCHANGED << story, initialStory, currentLanguage, currentLanguageName,
                  captured >>
  /\ apiFrame

apiResetStory ==
  /\ story' = resetStory(initialStory)
  /\ ret' = << resetStory(initialStory) >>
  /\ call' = Called("resetStory", call.appended)
  /\ UNCHANGED << initialStory, currentLanguage, currentLanguageName, captured >>
  /\ apiFrame

apiSetLanguage(option) ==
  /\ currentLanguage' = setLanguage(option.lang, option.name).currentLanguage
  /\ currentLanguageName' = setLanguage(option.lang, option.name).currentLanguageName
  /\ ret' = <<>>
  /\ call' = Called("setLanguage", call.appended)
  /\ UNCHANGED << story, initialStory, captured >>
  /\ apiFrame

apiGetLanguage ==
  /\ ret' = << << currentLanguage, currentLanguageName >> >>
  /\ call' = Called("getLanguage", call.appended)
  /\ UNCHANGED << story, initialStory, currentLanguage, currentLanguageName,
                  captured >>
  /\ apiFrame

ModelApiNext ==
  \/ \E initialText \in ApiTexts : apiInitializeStory(initialText)
  \/ \E role \in Roles, text \in ApiTexts : apiAppendLine(role, text)
  \/ apiGetStory
  \/ apiResetStory
  \/ \E option \in LanguageOptions : apiSetLanguage(option)
  \/ apiGetLanguage

\* ================================================================
\* Recipe app (aicook/script.js)
\* ================================================================
MaxRequests == 2

KeyInputs == { <<>>, <<" ">>, <<" ", "k", " ">>, <<"j">> }
IngredientInputs == { <<>>, <<" ">>, <<"eggs, flour", " ">> }
\* values of the dietary and cuisine selectors when the button is clicked
FormSelections == { [dietary |-> <<"vegetarian">>, cuisine |-> <<>>] }

Markup == "(markup)"
KeyMessage == <<"please enter your Gemini API Key">>
IngredientsMessage == <<"please enter ingredients">>
FailedMessage ==
  <<"Failed to generate recipe. Please check you API key and try again">>
FormatDirective ==
  "\n\n    Please format your response as follows:\n     - recipe name \n     - prep time\n     - cook time\n     - servings\n     - ingredients (with quantities)\n     - instructions (numbered steps)\n     - tips (optional)\n\n     Make sure the recipe is practical and delicious!"

\* a string is truthy when it is not empty; undefined is falsy
Truthy(optString) == optString # <<>> /\ optString[1] # <<>>

IsWhiteSpace(c) == c \in { " ", "\n", "\t" }

RECURSIVE TrimStart(_)
TrimStart(s) ==
  IF s # <<>> /\ IsWhiteSpace(Head(s)) THEN TrimStart(Tail(s)) ELSE s

RECURSIVE TrimEnd(_)
TrimEnd(s) ==
  IF s # <<>> /\ IsWhiteSpace(s[Len(s)])
    THEN TrimEnd(SubSeq(s, 1, Len(s) - 1)) ELSE s

\* String.prototype.trim
Trim(s) == TrimEnd(TrimStart(s))

\* ------------------------------------------------------- formatRecipe
Undefined == "undefined"
Bullet == "(U+2022)"

AtLineStart(s, p) == p = 1 \/ s[p - 1] = "\n"

\* number of consecutive tokens equal to c starting at p
RECURSIVE Run(_, _, _)
Run(s, p, c) ==
  IF p <= Len(s) /\ s[p] = c THEN 1 + Run(s, p + 1, c) ELSE 0

\* number of consecutive tokens other than a line break starting at p
RECURSIVE LineRun(_, _)
LineRun(s, p) ==
  IF p <= Len(s) /\ s[p] # "\n" THEN 1 + LineRun(s, p + 1) ELSE 0

\* recipe.replace(/(^| ) +/gm,) : the replacement argument is undefined
RECURSIVE CollapseFrom(_, _)
CollapseFrom(s, p) ==
  IF p > Len(s) THEN <<>>
  ELSE LET n == Run(s, p, " ") IN
    IF (AtLineStart(s, p) /\ n >= 1) \/ n >= 2
      THEN << Undefined >> \o CollapseFrom(s, p + n)
      ELSE << s[p] >> \o CollapseFrom(s, p + 1)

\* recipe.replace(/^-*/gm,"")
RECURSIVE StripDashesFrom(_, _)
StripDashesFrom(s, p) ==
  IF p > Len(s) THEN <<>>
  ELSE IF AtLineStart(s, p) /\ s[p] = "-"
    THEN StripDashesFrom(s, p + Run(s, p, "-"))
    ELSE << s[p] >> \o StripDashesFrom(s, p + 1)

\* lengths k of a lazy (.+?) between ** at p and a closing **
BoldLengths(s, p) ==
  { k \in 1..Len(s) :
      /\ p + 3 + k <= Len(s)
      /\ s[p] = "*" /\ s[p + 1] = "*"
      /\ LineRun(s, p + 2) >= k
      /\ s[p + 2 + k] = "*" /\ s[p + 3 + k] = "*" }

Least(S) == CHOOSE k \in S : \A j \in S : k <= j

\* recipe.replace(/\*\*(.+?)\*\*/gm, "<strong>$1</strong>")
RECURSIVE BoldFrom(_, _)
BoldFrom(s, p) ==
  IF p > Len(s) THEN <<>>
  ELSE IF BoldLengths(s, p) # {}
    THEN LET k == Least(BoldLengths(s, p)) IN
           << "<strong>" >> \o SubSeq(s, p + 2, p + 1 + k) \o << "</strong>" >>
             \o BoldFrom(s, p + 4 + k)
    ELSE << s[p] >> \o BoldFrom(s, p + 1)

\* recipe.replace(/^(.+)/g,"<h3 class='recipe-title'>$1</h3>") : no m flag
TitleFirstLine(s) ==
  IF LineRun(s, 1) >= 1
    THEN << "<h3 class='recipe-title'>" >> \o SubSeq(s, 1, LineRun(s, 1))
           \o << "</h3>" >> \o SubSeq(s, LineRun(s, 1) + 1, Len(s))
    ELSE s

\* recipe.replace(/^\*/gm, bullet)
RECURSIVE BulletsFrom(_, _)
BulletsFrom(s, p) ==
  IF p > Len(s) THEN <<>>
  ELSE IF AtLineStart(s, p) /\ s[p] = "*"
    THEN << Bullet >> \o BulletsFrom(s, p + 1)
    ELSE << s[p] >> \o BulletsFrom(s, p + 1)

\* recipe.replace(/^(.+)/gm,"<p>$1</p>")
RECURSIVE ParagraphsFrom(_, _)
ParagraphsFrom(s, p) ==
  IF p > Len(s) THEN <<>>
  ELSE IF AtLineStart(s, p) /\ LineRun(s, p) >= 1
    THEN << "<p>" >> \o SubSeq(s, p, p + LineRun(s, p) - 1) \o << "</p>" >>
           \o ParagraphsFrom(s, p + LineRun(s, p))
    ELSE << s[p] >> \o ParagraphsFrom(s, p + 1)

formatRecipe(recipe) ==
  ParagraphsFrom(
    BulletsFrom(
      TitleFirstLine(
        BoldFrom(
          StripDashesFrom(
            CollapseFrom(recipe, 1), 1), 1)), 1), 1)

\* ------------------------------------------------------ AICookApp
\* constructor: the stored key goes to this.apikey; this.apiKey is not assigned
Constructor(stored) ==
  [apikey |-> IF Truthy(stored) THEN stored[1] ELSE <<>>, apiKey |-> <<>>]

updateApiKeyStatus(isvalid) ==
  IF isvalid THEN [textContent |-> "saved ", background |-> "#28a745"]
             ELSE [textContent |-> "save", background |-> "#dc3545"]

\* loadApiKey: the key input and the status after it has run
loadApiKey(key, input, btn) ==
  IF Truthy(key) THEN [input |-> key[1], btn |-> updateApiKeyStatus(TRUE)]
                 ELSE [input |-> input, btn |-> btn]

\* showError: the alert raised, tagged with the method that called it
showError(message, method) == [message |-> message, method |-> method]

showLoading(isLoading) ==
  IF isLoading
    THEN [shown |-> TRUE, disable |-> << TRUE >>, textContent |-> "Generating..."]
    ELSE [shown |-> FALSE, disable |-> << FALSE >>, textContent |-> "Generate Recipe"]

\* the prompt with the dietary clause appended whatever the selection
BuildPrompt_Unconditional(ingredients, dietary, cuisine) ==
  << "Create a detailed recipe using these ingredients: " >> \o ingredients
    \o << " Make it " >> \o dietary \o << "." >>
    \o (IF cuisine # <<>>
          THEN << " The cuisine style chould be " >> \o cuisine \o << "." >>
          ELSE <<>>)
    \o << FormatDirective >>

\* the prompt text callGeminiAPI builds
BuildPrompt(ingredients, dietary, cuisine) ==
  << "Create a detailed recipe using these ingredients: " >> \o ingredients
    \o (IF dietary # <<>> THEN << " Make it " >> \o dietary \o << "." >> ELSE <<>>)
    \o (IF cuisine # <<>>
          THEN << " The cuisine style chould be " >> \o cuisine \o << "." >>
          ELSE <<>>)
    \o << FormatDirective >>

\* callGeminiAPI from the settled fetch on
callGeminiAPI(response) ==
  IF ~response.net THEN Throw("TypeError", <<"Failed to fetch">>)
  ELSE IF ~response.json THEN Throw("SyntaxError", <<"Unexpected token">>)
  ELSE IF ~response.ok THEN
    IF response.error = <<>>
      THEN Throw("TypeError", <<"Cannot read properties of undefined (reading 'message')">>)
      ELSE Throw("Error",
                 << "API Error: " >>
                   \o (IF Truthy(response.error[1].message)
                         THEN response.error[1].message[1]
                         ELSE << "Unknown error" >>))
  ELSE IF response.candidates = <<>>
    THEN Throw("TypeError", <<"Cannot read properties of undefined (reading '0')">>)
  ELSE IF response.candidates[1].parts = <<>>
    THEN Throw("TypeError", <<"Cannot read properties of undefined (reading 'text')">>)
  ELSE Return(response.candidates[1].parts[1].text)

\* displayRecipe rendering a missing recipe as the text "undefined"
displayRecipe_Lenient(recipe) ==
  IF recipe = <<>> THEN Return(<< << Undefined >> >>)
                   ELSE Return(<< formatRecipe(recipe[1]) >>)

\* displayRecipe: formatRecipe throws on a recipe that is not a string
displayRecipe(recipe) ==
  IF recipe = <<>>
    THEN Throw("TypeError", <<"Cannot read properties of undefined (reading 'replace')">>)
    ELSE Return(<< formatRecipe(recipe[1]) >>)

\* what the try block of generateRecipe comes to
TryBlock(response) ==
  IF callGeminiAPI(response).kind = "throw" THEN callGeminiAPI(response)
  ELSE displayRecipe(callGeminiAPI(response).value)

\* newer: what has become of the most recently triggered request, when that
\* is another request than this one ("none" when this one is the most recent)
RecipeRequest(prompt, key) == [prompt |-> prompt, key |-> key, newer |-> "none"]

\* a further request is triggered while these are outstanding
Superseded(reqs) ==
  [j \in DOMAIN reqs |-> [reqs[j] EXCEPT !.newer = "pending"]]

\* the i-th outstanding request settles with the outcome
Settled(reqs, i, outcome) ==
  LET rest == Remove(reqs, i) IN
    IF reqs[i].newer = "none"
      THEN [j \in DOMAIN rest |-> [rest[j] EXCEPT !.newer = outcome]]
      ELSE rest

RecipeOutstanding == DOMAIN recipeRequests


\* DOMContentLoaded: new AICookApp()
CookInit ==
  /\ storage = <<>>
  /\ apikey = Constructor(<<>>).apikey
  /\ apiKey = Constructor(<<>>).apiKey
  /\ apiKeyInput = loadApiKey(Constructor(<<>>).apiKey, <<>>, 
                              [textContent |-> Markup, background |-> Markup]).input
  /\ saveApiKeyBtn = loadApiKey(Constructor(<<>>).apiKey, <<>>,
                                [textContent |-> Markup, background |-> Markup]).btn
  /\ loadingShown = FALSE
  /\ generateBtnDisable = <<>>
  /\ generateBtnDisabled = FALSE
  /\ generateBtnText = Markup
  /\ recipeShown = FALSE
  /\ recipeContent = <<>>
  /\ alert = <<>>
  /\ recipeRequests = <<>>

\* the page is loaded again: a new AICookApp over the same localStorage
reload ==
  /\ storage # <<>>
  /\ apikey' = Constructor(storage).apikey
  /\ apiKey' = Constructor(storage).apiKey
  /\ apiKeyInput' = loadApiKey(Constructor(storage).apiKey, <<>>,
                               [textContent |-> Markup, background |-> Markup]).input
  /\ saveApiKeyBtn' = loadApiKey(Constructor(storage).apiKey, <<>>,
                                 [textContent |-> Markup, background |-> Markup]).btn
  /\ loadingShown' = FALSE
  /\ generateBtnDisable' = <<>>
  /\ generateBtnDisabled' = FALSE
  /\ generateBtnText' = Markup
  /\ recipeShown' = FALSE
  /\ recipeContent' = <<>>
  /\ alert' = <<>>
  /\ recipeRequests' = <<>>
  /\ UNCHANGED << storage, svars >>

\* the user edits the key field
typeApiKey(value) ==
  /\ apiKeyInput' = value
  /\ UNCHANGED << storage, apikey, apiKey, saveApiKeyBtn, loadingShown,
                  generateBtnDisable, generateBtnDisabled, generateBtnText,
                  recipeShown, recipeContent, alert, recipeRequests, svars >>

\* saveApiKey without the check for an empty key
saveApiKey_NoValidation ==
  /\ apiKey' = << Trim(apiKeyInput) >>
  /\ storage' = << Trim(apiKeyInput) >>
  /\ saveApiKeyBtn' = updateApiKeyStatus(TRUE)
  /\ alert' = <<>>
  /\ UNCHANGED << apikey, apiKeyInput, loadingShown,
                  generateBtnDisable, generateBtnDisabled, generateBtnText,
                  recipeShown, recipeContent, recipeRequests, svars >>

\* saveApiKey keeping the key as typed
saveApiKey_Untrimmed ==
  /\ IF Trim(apiKeyInput) = <<>>
       THEN /\ alert' = << showError(KeyMessage, "saveApiKey") >>
            /\ UNCHANGED << apiKey, storage, saveApiKeyBtn >>
       ELSE /\ apiKey' = << apiKeyInput >>
            /\ storage' = << apiKeyInput >>
            /\ saveApiKeyBtn' = updateApiKeyStatus(TRUE)
            /\ alert' = <<>>
  /\ UNCHANGED << apikey, apiKeyInput, loadingShown, generateBtnDisable,
                  generateBtnDisabled, generateBtnText, recipeShown,
                  recipeContent, recipeRequests, svars >>

\* click on the save button, or Enter in the key field
saveApiKey ==
  /\ LET key == Trim(apiKeyInput) IN
       IF key = <<>>
         THEN /\ alert' = << showError(KeyMessage, "saveApiKey") >>
              /\ UNCHANGED << apiKey, storage, saveApiKeyBtn >>
         ELSE /\ apiKey' = << key >>
              /\ storage' = << key >>
              /\ saveApiKeyBtn' = updateApiKeyStatus(TRUE)
              /\ alert' = <<>>
  /\ UNCHANGED << apikey, apiKeyInput, loadingShown, generateBtnDisable,
                  generateBtnDisabled, generateBtnText, recipeShown,
                  recipeContent, recipeRequests, svars >>

\* generateRecipe without the check for empty ingredients
generateRecipe_NoIngredientsCheck(ingredientsValue, dietary, cuisine) ==
  /\ ~generateBtnDisabled
  /\ IF ~Truthy(apiKey)
       THEN /\ alert' = << showError(KeyMessage, "generateRecipe") >>
            /\ UNCHANGED << loadingShown, generateBtnDisable, generateBtnText,
                            recipeShown, recipeRequests >>
     ELSE /\ Len(recipeRequests) < MaxRequests
          /\ loadingShown' = showLoading(TRUE).shown
          /\ generateBtnDisable' = showLoading(TRUE).disable
          /\ generateBtnText' = showLoading(TRUE).textContent
          /\ recipeShown' = FALSE
          /\ recipeRequests' = Append(Superseded(recipeRequests),
               RecipeRequest(BuildPrompt(Trim(ingredientsValue), dietary, cuisine),
                             apiKey[1]))
          /\ alert' = <<>>
  /\ UNCHANGED << storage, apikey, apiKey, apiKeyInput, saveApiKeyBtn,
                  generateBtnDisabled, recipeContent, svars >>

\* click on the generate button, which a disabled button does not deliver:
\* generateRecipe up to its await
generateRecipe(ingredientsValue, dietary, cuisine) ==
  /\ ~generateBtnDisabled
  /\ IF ~Truthy(apiKey)
       THEN /\ alert' = << showError(KeyMessage, "generateRecipe") >>
            /\ UNCHANGED << loadingShown, generateBtnDisable, generateBtnText,
                            recipeShown, recipeRequests >>
     ELSE IF Trim(ingredientsValue) = <<>>
       THEN /\ alert' = << showError(IngredientsMessage, "generateRecipe") >>
            /\ UNCHANGED << loadingShown, generateBtnDisable, generateBtnText,
                            recipeShown, recipeRequests >>
     ELSE /\ Len(recipeRequests) < MaxRequests
          /\ loadingShown' = showLoading(TRUE).shown
          /\ generateBtnDisable' = showLoading(TRUE).disable
          /\ generateBtnText' = showLoading(TRUE).textContent
          /\ recipeShown' = FALSE
          /\ recipeRequests' = Append(Superseded(recipeRequests),
               RecipeRequest(BuildPrompt(Trim(ingredientsValue), dietary, cuisine),
                             apiKey[1]))
          /\ alert' = <<>>
  /\ UNCHANGED << storage, apikey, apiKey, apiKeyInput, saveApiKeyBtn,
                  generateBtnDisabled, recipeContent, svars >>

\* Ctrl+Enter in the ingredients field calls this.generateRecipie(), which is
\* not a function: the listener throws a TypeError before anything runs
ingredientsCtrlEnter ==
  /\ alert' = <<>>
  /\ UNCHANGED << storage, apikey, apiKey, apiKeyInput, saveApiKeyBtn,
                  loadingShown, generateBtnDisable, generateBtnDisabled,
                  generateBtnText, recipeShown, recipeContent,
                  recipeRequests, svars >>

\* generateRecipe after its await: the try block completes
recipeResolves(i, response) ==
  /\ i \in RecipeOutstanding
  /\ recipeRequests' = Settled(recipeRequests, i, "succeeded")
  /\ TryBlock(response).kind = "return"
  /\ recipeContent' = TryBlock(response).value[1]
  /\ recipeShown' = TRUE
  /\ loadingShown' = showLoading(FALSE).shown
  /\ generateBtnDisable' = showLoading(FALSE).disable
  /\ generateBtnText' = showLoading(FALSE).textContent
  /\ alert' = <<>>
  /\ UNCHANGED << storage, apikey, apiKey, apiKeyInput, saveApiKeyBtn,
                  generateBtnDisabled, svars >>

\* generateRecipe without try/catch/finally: a failure escapes the handler
recipeFails_Uncaught(i, response) ==
  /\ i \in RecipeOutstanding
  /\ recipeRequests' = Settled(recipeRequests, i, "failed")
  /\ TryBlock(response).kind = "throw"
  /\ alert' = <<>>
  /\ UNCHANGED << storage, apikey, apiKey, apiKeyInput, saveApiKeyBtn,
                  loadingShown, generateBtnDisable, generateBtnDisabled,
                  generateBtnText, recipeShown, recipeContent, svars >>

\* generateRecipe after its await: the try block throws, catch and finally run
recipeFails(i, response) ==
  /\ i \in RecipeOutstanding
  /\ recipeRequests' = Settled(recipeRequests, i, "failed")
  /\ TryBlock(response).kind = "throw"
  /\ alert' = << showError(FailedMessage, "generateRecipe") >>
  /\ loadingShown' = showLoading(FALSE).shown
  /\ generateBtnDisable' = showLoading(FALSE).disable
  /\ generateBtnText' = showLoading(FALSE).textContent
  /\ UNCHANGED << storage, apikey, apiKey, apiKeyInput, saveApiKeyBtn,
                  generateBtnDisabled, recipeShown, recipeContent, svars >>

\* ================================================================
\* Functions of script.js applied to drawn arguments
\* ================================================================
\* the storyteller page is not open
NoStoryteller ==
  /\ story = <<>>
  /\ initialStory = <<>>
  /\ currentLanguage = "en-US"
  /\ currentLanguageName = "English"
  /\ recognitionLang = "en-US"
  /\ aiRequestInProgress = FALSE
  /\ loading = FALSE
  /\ displayed = <<>>
  /\ speaking = <<>>
  /\ timers = <<>>
  /\ requests = <<>>
  /\ unhandledRejection = FALSE

functionFrame ==
  UNCHANGED << story, initialStory, currentLanguage, currentLanguageName,
               recognitionLang, aiRequestInProgress, loading, displayed,
               speaking, timers, requests, unhandledRejection, captured, cvars >>

\* trimmed, non-empty ingredients and the values of the two selectors
PromptIngredients ==
  { <<"eggs, flour">>, <<"rice">>, <<"eggs", ",", " ", "flour">>,
    <<"2", " ", "eggs">> }
DietaryOptions == { <<>>, <<"vegetarian">>, <<"vegan">>, <<"gluten-free">> }
CuisineOptions == { <<>>, <<"italian">>, <<"mexican">>, <<"thai">> }

PromptArguments ==
  [ingredients : PromptIngredients, dietary : DietaryOptions,
   cuisine : CuisineOptions]

PromptInit ==
  /\ NoStoryteller
  /\ CookInit
  /\ captured \in { << a >> : a \in PromptArguments }
  /\ ret = <<>>
  /\ call = Called("load", FALSE)

\* callGeminiAPI(ingredients) up to its fetch: ret is the prompt
buildPrompt ==
  /\ ret' = << BuildPrompt(captured[1].ingredients, captured[1].dietary,
                           captured[1].cuisine) >>
  /\ call' = Called("callGeminiAPI", FALSE)
  /\ functionFrame

\* texts for formatRecipe: up to MaxTextLen characters of a small alphabet
MaxTextLen == 4
TextAlphabet == { " ", "\n", "a" }
TextsOfLength(n) == [1..n -> TextAlphabet]
RecipeTexts == UNION { TextsOfLength(n) : n \in 0..MaxTextLen }

FormatInit ==
  /\ NoStoryteller
  /\ CookInit
  /\ captured \in { << t >> : t \in RecipeTexts }
  /\ ret = <<>>
  /\ call = Called("load", FALSE)

\* the first statement of formatRecipe(recipe): ret is recipe after it
collapseSpaces ==
  /\ ret' = << CollapseFrom(captured[1], 1) >>
  /\ call' = Called("formatRecipe", FALSE)
  /\ functionFrame

\* ================================================================
\* Properties
\* ================================================================
IsPrefix(p, s) == Len(p) <= Len(s) /\ SubSeq(s, 1, Len(p)) = p

\* new is old followed by one line "\n<Role>: <text>"
AppendsOneLine(old, new) ==
  \E role \in Roles :
    /\ Len(new) >= Len(old) + 3
    /\ SubSeq(new, 1, Len(old) + 3) = old \o << "\n", role, ": " >>

\* this step is the completion of storyteller request i with the response
StoryCompletes(i, response) ==
  completionResolves(i, response) \/ completionRejects(i, response)

\* this step is the completion of recipe request i with the response
RecipeCompletes(i, response) ==
  recipeResolves(i, response) \/ recipeFails(i, response)

\* the response parsed, with success status, and has no text for
\* candidates[0].content.parts[0]
NoText(response) ==
  /\ response.net /\ response.ok /\ response.json
  /\ \/ response.candidates = <<>>
     \/ response.candidates[1].parts = <<>>
     \/ response.candidates[1].parts[1].text = <<>>

FailedAlert == showError(FailedMessage, "generateRecipe")

\* C1: after initializeStory(s) and any appendLine and resetStory calls,
\* resetStory() returns s and leaves the transcript equal to s, the argument
\* of the most recent initializeStory call.
C1_ResetRestoresSnapshot ==
  (call.name = "resetStory" /\ captured # <<>>)
    => (ret = captured /\ story = captured[1])

C1_Witness ==
  /\ call.name = "resetStory"
  /\ call.appended
  /\ captured = << <<"s">> >>
  /\ story = <<"s">>

\* C2: every step leaves the transcript unchanged, appends exactly one line
\* "\n<Role>: <text>" at its end, or sets it to the initial snapshot; the
\* initial snapshot is a prefix of the transcript in every reachable state.
C2_AppendOnlyExceptReset ==
  /\ [](IsPrefix(initialStory, story))
  /\ [][ \/ story' = story
         \/ AppendsOneLine(story, story')
         \/ story' = initialStory ]_vars

\* a reset followed by the Narrator line of a request made before it
C2_Witness ==
  /\ requests = <<>>
  /\ story = appendLine(initialStory, "Narrator", <<"x">>)

\* C3: when a request that was outstanding at a stop action later resolves,
\* its result is discarded: no Narrator line is appended, nothing is spoken
\* and the displayed story stays as the stop left it.
C3_StoppedResultDiscarded ==
  [][ \A i \in Outstanding, response \in Responses :
        (StoryCompletes(i, response) /\ requests[i].stopped)
          => (story' = story /\ speaking' = speaking /\ displayed' = displayed)
    ]_vars

\* C4: at most one generateStory request is outstanding in every reachable
\* state.
C4_AtMostOneOutstanding == Cardinality(Outstanding) <= 1

\* C5: every failure of the completion call inside generateRecipe is caught:
\* the error message is shown, and after any request settles the loading
\* indicator is hidden and the button text is restored.
C5_FailuresCaught ==
  [][ \A i \in RecipeOutstanding, response \in Responses :
        RecipeCompletes(i, response)
          => /\ callGeminiAPI(response).kind = "throw"
                  => alert' = << FailedAlert >>
             /\ ~loadingShown'
             /\ generateBtnText' = "Generate Recipe"
    ]_vars

C5_Witness ==
  /\ recipeRequests = <<>>
  /\ ~loadingShown
  /\ generateBtnText = "Generate Recipe"
  /\ alert = << FailedAlert >>
  /\ ~recipeShown
  /\ recipeContent # <<>>

\* C6 as stated: once a completion request has failed, the loading indicator
\* is shown and aiRequestInProgress is true in every later state.
C6_StuckForever == unhandledRejection => (loading /\ aiRequestInProgress)

\* C6 as amended: the failure of a completion request runs no handler, so it
\* changes neither the loading indicator, nor aiRequestInProgress, nor the
\* transcript, its display or the speech; after a failure the indicator stays
\* shown and the flag true until a stop action, a recognition error or the
\* completion of another request clears them.
C6_StuckUntilCleared ==
  [][ /\ \A i \in Outstanding, response \in Responses :
           completionRejects(i, response)
             => UNCHANGED << loading, aiRequestInProgress, story, displayed,
                             speaking >>
      /\ (unhandledRejection /\ loading /\ aiRequestInProgress)
           => \/ loading' /\ aiRequestInProgress'
              \/ handleStopSpeaking
              \/ recognitionOnError
              \/ \E i \in Outstanding, response \in Responses :
                   completionResolves(i, response)
    ]_vars

C6_Witness ==
  /\ unhandledRejection
  /\ requests = <<>>
  /\ loading
  /\ aiRequestInProgress

\* the error callGeminiAPI is to fail with on a non-success status
ApiError(response) ==
  Throw("Error",
        << "API Error: " >>
          \o (IF response.json /\ response.error # <<>>
                   /\ Truthy(response.error[1].message)
                THEN response.error[1].message[1]
                ELSE << "Unknown error" >>))

\* C7: on a non-success HTTP status callGeminiAPI fails with an error that
\* carries the provider's message when the body has one and 'Unknown error'
\* when it has none; it never returns text.
C7_NonOkIsApiError ==
  [][ \A i \in RecipeOutstanding, response \in Responses :
        (response.net /\ ~response.ok /\ RecipeCompletes(i, response))
          => callGeminiAPI(response) = ApiError(response)
    ]_vars

\* C8: on a non-success HTTP status generateStory fails with an error, so no
\* Narrator line is appended and nothing is spoken for that request.
C8_NonOkStoryFails ==
  [][ \A i \in Outstanding, response \in Responses :
        (response.net /\ ~response.ok /\ StoryCompletes(i, response))
          => /\ generateStory(response).kind = "throw"
             /\ story' = story
             /\ speaking' = speaking
    ]_vars

\* C9, storyteller half: generateStory returns the placeholder, which is
\* appended as the Narrator line and spoken.
PlaceholderNarrated(i, response) ==
  StoryCompletes(i, response)
    => /\ generateStory(response) = Return(<< Placeholder >>)
       /\ story' = appendLine(story, "Narrator", Placeholder)
       /\ speaking' = << speakText(Placeholder, currentLanguage) >>

\* C9, recipe half: the error message is shown and no recipe is displayed.
RecipeErrorShown(i, response) ==
  RecipeCompletes(i, response)
    => /\ alert' = << FailedAlert >>
       /\ UNCHANGED << recipeShown, recipeContent >>

\* C9 as stated: on a parsed response without first-candidate first-part
\* text generateStory returns the placeholder (appended and spoken), whereas
\* callGeminiAPI fails and generateRecipe shows the error and no recipe.
C9_CallGeminiApiFails ==
  [][ \A response \in Responses :
        NoText(response) =>
          /\ \A i \in Outstanding : PlaceholderNarrated(i, response)
          /\ \A i \in RecipeOutstanding :
               /\ RecipeErrorShown(i, response)
               /\ RecipeCompletes(i, response)
                    => callGeminiAPI(response).kind = "throw"
    ]_vars

\* C9 as amended: on such a response generateStory returns the placeholder
\* (appended and spoken), whereas in the recipe app the try block of
\* generateRecipe fails, in callGeminiAPI when the candidates or parts are
\* missing and in displayRecipe when only the text is, so that generateRecipe
\* shows the error and no recipe.
C9_TryBlockFails ==
  [][ \A response \in Responses :
        NoText(response) =>
          /\ \A i \in Outstanding : PlaceholderNarrated(i, response)
          /\ \A i \in RecipeOutstanding :
               /\ RecipeErrorShown(i, response)
               /\ RecipeCompletes(i, response)
                    => TryBlock(response).kind = "throw"
    ]_vars

\* the first request of a session has failed: nothing was ever displayed
C9_Witness ==
  /\ recipeRequests = <<>>
  /\ alert = << FailedAlert >>
  /\ ~recipeShown
  /\ recipeContent = <<>>
  /\ generateBtnText = "Generate Recipe"

\* C10: saveApiKey with an empty or whitespace-only key input raises the
\* alert and changes nothing: storage, the in-memory key and the saved-status
\* indicator are as before the call.
C10_EmptyKeyRejected ==
  [][ (saveApiKey /\ Trim(apiKeyInput) = <<>>)
        => /\ alert' = << showError(KeyMessage, "saveApiKey") >>
           /\ UNCHANGED << storage, apiKey, saveApiKeyBtn >>
    ]_vars

C10_Witness ==
  /\ alert = << showError(KeyMessage, "saveApiKey") >>
  /\ Trim(apiKeyInput) = <<>>
  /\ storage # <<>>
  /\ apiKey = storage
  /\ saveApiKeyBtn = updateApiKeyStatus(TRUE)

\* C11: generateRecipe with no API key in this.apiKey, or with empty or
\* whitespace-only ingredients, raises the alert for that case, issues no
\* request, and leaves the loading indicator, the button text and the
\* displayed recipe as they were; with no request outstanding the indicator
\* is hidden afterwards.
C11_InvalidTriggerStaysIdle ==
  [][ \A ingredientsValue \in IngredientInputs, selection \in FormSelections :
        ( /\ generateRecipe(ingredientsValue, selection.dietary,
                            selection.cuisine)
          /\ (~Truthy(apiKey) \/ Trim(ingredientsValue) = <<>>) )
        => /\ alert' = IF ~Truthy(apiKey)
                         THEN << showError(KeyMessage, "generateRecipe") >>
                         ELSE << showError(IngredientsMessage, "generateRecipe") >>
           /\ UNCHANGED << recipeRequests, loadingShown, generateBtnText,
                           recipeShown, recipeContent >>
           /\ (recipeRequests = <<>> => ~loadingShown')
    ]_vars

\* a recipe is on display and the ingredients alert has just been raised
C11_Witness ==
  /\ alert = << showError(IngredientsMessage, "generateRecipe") >>
  /\ recipeRequests = <<>>
  /\ recipeShown
  /\ recipeContent # <<>>
  /\ ~loadingShown

\* C12: every voice input appends its Player line at the end of the
\* transcript when it is handled, every resolving completion appends exactly
\* one Narrator line, with its response, at the end of the transcript when it
\* resolves, and only these steps and the stop action change the transcript.
\* Hence, for two inputs handled before either completion resolves and no
\* stop, the transcript ends with the two Player lines in handling order
\* followed by the two Narrator lines in the order of resolution.
C12_LinesInHandlingOrder ==
  [][ /\ \A userText \in UserTexts :
           handleVoiceInput(userText)
             => story' = appendLine(story, "Player", userText)
      /\ \A i \in Outstanding, response \in Responses :
           completionResolves(i, response)
             => /\ story' = appendLine(story, "Narrator",
                                       StoryText(response.candidates))
                /\ Len(requests') = Len(requests) - 1
      /\ story' # story
           => \/ \E userText \in UserTexts : handleVoiceInput(userText)
              \/ \E i \in Outstanding, response \in Responses :
                   completionResolves(i, response)
              \/ handleStopSpeaking
    ]_vars

\* inputs "a" and "b" were handled before either completion; the completions
\* have resolved, the first without text and the second with "x"
C12_Witness ==
  /\ requests = <<>>
  /\ ~unhandledRejection
  /\ story = appendLine(appendLine(appendLine(appendLine(initialStory,
                "Player", <<"a">>), "Player", <<"b">>),
                "Narrator", Placeholder), "Narrator", <<"x">>)
  /\ displayed = updateStory(story)

\* C13: a key persisted by saveApiKey is present after startup: the newly
\* constructed app fills the key input from storage and marks it saved, and
\* whenever storage holds a key, generateRecipe with non-empty ingredients
\* issues a request that uses the stored key.
C13_StoredKeyUsedAfterStartup ==
  [][ /\ reload
           => /\ apiKeyInput' = storage[1]
              /\ saveApiKeyBtn' = updateApiKeyStatus(TRUE)
      /\ \A ingredientsValue \in IngredientInputs, selection \in FormSelections :
           ( /\ generateRecipe(ingredientsValue, selection.dietary,
                               selection.cuisine)
             /\ storage # <<>>
             /\ Trim(ingredientsValue) # <<>> )
           => /\ Len(recipeRequests') = Len(recipeRequests) + 1
              /\ recipeRequests'[Len(recipeRequests')].key = storage[1]
    ]_vars

\* C14: while a recipe request is outstanding the generate button is
\* disabled, so that at most one recipe request is outstanding in every
\* reachable state.
C14_TriggerDisabledWhileOutstanding ==
  /\ Cardinality(RecipeOutstanding) <= 1
  /\ RecipeOutstanding # {} => generateBtnDisabled

\* s has sub as a contiguous part
Contains(s, sub) ==
  \E i \in 0..(Len(s) - Len(sub)) : SubSeq(s, i + 1, i + Len(sub)) = sub

\* C15: the prompt built for non-empty ingredients and any two selections
\* has the ingredients verbatim after its opening sentence and has the format
\* directive verbatim; what follows the ingredients has the clause
\* "Make it <dietary>." exactly when dietary is not empty and a cuisine clause
\* exactly when cuisine is not empty; the prompt is this function of the
\* three inputs and of nothing else.
C15_PromptContents ==
  call.name = "callGeminiAPI" =>
    LET a == captured[1]
        prompt == ret[1]
        rest == SubSeq(prompt, 2 + Len(a.ingredients), Len(prompt))
    IN  /\ SubSeq(prompt, 2, 1 + Len(a.ingredients)) = a.ingredients
        /\ Contains(prompt, a.ingredients)
        /\ Contains(prompt, << FormatDirective >>)
        /\ Contains(rest, << " Make it " >> \o a.dietary \o << "." >>)
             <=> a.dietary # <<>>
        /\ Contains(rest, << " The cuisine style chould be " >>)
             <=> a.cuisine # <<>>
        /\ prompt =
             << "Create a detailed recipe using these ingredients: " >>
               \o a.ingredients
               \o (IF a.dietary = <<>> THEN <<>>
                    ELSE << " Make it " >> \o a.dietary \o << "." >>)
               \o (IF a.cuisine = <<>> THEN <<>>
                    ELSE << " The cuisine style chould be " >> \o a.cuisine
                           \o << "." >>)
               \o << FormatDirective >>

\* ingredients "eggs, flour", dietary "vegetarian", no cuisine
C15_Witness ==
  /\ call.name = "callGeminiAPI"
  /\ captured = << [ingredients |-> <<"eggs, flour">>,
                    dietary |-> <<"vegetarian">>, cuisine |-> <<>>] >>
  /\ Contains(ret[1], << "eggs, flour", " Make it ", "vegetarian", "." >>)
  /\ ~Contains(ret[1], << " The cuisine style chould be " >>)

NonSpace(s) == SelectSeq(s, LAMBDA c : c # " ")

\* C16: the text after the first substitution of formatRecipe has no two
\* consecutive spaces and no line starting with a space, and its characters
\* other than spaces are those of the input, in the same order.
C16_CollapseOnlyRemovesSpaces ==
  call.name = "formatRecipe" =>
    LET out == ret[1] IN
      /\ \A p \in 1..Len(out) :
           out[p] = " " => /\ ~AtLineStart(out, p)
                           /\ (p < Len(out) => out[p + 1] # " ")
      /\ NonSpace(out) = NonSpace(captured[1])

\* C17: between event handlers the loading indicator is visible exactly when
\* aiRequestInProgress is true.
C17_LoadingIffInProgress == loading <=> aiRequestInProgress

\* a request is still outstanding, yet the indicator is hidden and the flag
\* false: another completion, a stop or a recognition error has cleared both
C17_Witness ==
  /\ requests # <<>>
  /\ ~requests[1].stopped
  /\ ~loading
  /\ ~aiRequestInProgress

\* C18: when a completion resolves, the locale its response is spoken with
\* and the language name in the prompt of that request are the code and the
\* name of one language setting.
C18_SpokenInPromptLanguage ==
  [][ \A i \in Outstanding, response \in Responses :
        completionResolves(i, response)
          => \E option \in LanguageOptions :
               /\ option.name = requests[i].languageName
               /\ speaking' = << speakText(StoryText(response.candidates),
                                           option.lang) >>
    ]_vars

\* C19: when a request resolves and leaves no request outstanding, the
\* recipe it displays is not the result of a request triggered before the
\* most recently triggered one, that one having succeeded.
C19_LatestRecipeShown ==
  [][ \A i \in RecipeOutstanding, response \in Responses :
        (recipeResolves(i, response) /\ recipeRequests' = <<>>)
          => recipeRequests[i].newer # "succeeded"
    ]_vars

\* C20: whenever this.apiKey is set it is not empty, neither starts nor ends
\* with white space, and equals the stored key; a save of a key that is not
\* empty once trimmed writes the trimmed key to both.
C20_KeyTrimmedAndStored ==
  /\ [](apiKey # <<>>
          => /\ apiKey[1] # <<>>
             /\ ~IsWhiteSpace(apiKey[1][1])
             /\ ~IsWhiteSpace(apiKey[1][Len(apiKey[1])])
             /\ storage = apiKey)
  /\ [][ (saveApiKey /\ Trim(apiKeyInput) # <<>>)
          => /\ apiKey' = << Trim(apiKeyInput) >>
             /\ storage' = << Trim(apiKeyInput) >>
      ]_vars

\* the key " k " has been saved
C20_Witness ==
  /\ apiKeyInput = << " ", "k", " " >>
  /\ apiKey = << << "k" >> >>
  /\ storage = << << "k" >> >>
  /\ saveApiKeyBtn = updateApiKeyStatus(TRUE)

\* ================================================================
\* Specifications
\* ================================================================
\* The two pages are separate applications that share no state: a behaviour
\* is a session of one of them, the other staying as it was loaded.
Init == StoryInit /\ CookInit

Next ==
  \/ \E userText \in UserTexts : CookInit /\ handleVoiceInput(userText)
  \/ \E i \in Outstanding, response \in Responses :
       CookInit /\ completionResolves(i, response)
  \/ \E i \in Outstanding, response \in Responses :
       CookInit /\ completionRejects(i, response)
  \/ \E selectedOption \in LanguageOptions :
       CookInit /\ handleLanguageChange(selectedOption)
  \/ CookInit /\ handleStopSpeaking
  \/ CookInit /\ recognitionOnError
  \/ CookInit /\ announcementFires
  \/ StoryInit /\ reload
  \/ \E value \in KeyInputs : StoryInit /\ typeApiKey(value)
  \/ StoryInit /\ saveApiKey
  \/ \E ingredientsValue \in IngredientInputs, selection \in FormSelections :
       StoryInit /\ generateRecipe(ingredientsValue, selection.dietary,
                                   selection.cuisine)
  \/ StoryInit /\ ingredientsCtrlEnter
  \/ \E i \in RecipeOutstanding, response \in Responses :
       StoryInit /\ recipeResolves(i, response)
  \/ \E i \in RecipeOutstanding, response \in Responses :
       StoryInit /\ recipeFails(i, response)

Spec == Init /\ [][Next]_vars

\* model.js driven through its exported functions
ModelInit == ModelApiInit /\ CookInit

ModelApiSpec == ModelInit /\ [][ModelApiNext]_vars

\* the prompt builder of callGeminiAPI applied to drawn arguments
PromptNext == buildPrompt

PromptSpec == PromptInit /\ [][PromptNext]_vars

\* the first substitution of formatRecipe applied to drawn texts
FormatNext == collapseSpaces

FormatSpec == FormatInit /\ [][FormatNext]_vars

====
